---- MODULE Spec2Model ----
(***************************************************************************)
(* A state-machine model of the orchestration core of yieldera-ai-backend: *)
(* the quota controller (core/rate_limit.py), the response cache           *)
(* (integrations/redis_cache.py) and the agent loop (core/agent.py).       *)
(* Each component has its own specification over the shared variables;     *)
(* the variables a specification does not use keep their initial values.   *)
(***************************************************************************)
EXTENDS Integers, Sequences, FiniteSets, TLC

VARIABLES
    now,                  \* wall clock, in seconds since the start of day 0
    redis_ok,             \* TRUE when get_redis() returns a client
    redis_rl,             \* shared store: rate_limit:{user}:{day} -> [val, exp]
    redis_boost,          \* shared store: quota_boost:{user} -> [val, exp]
    memory_limit_store,   \* _memory_limit_store: user -> [date, count, bonus]
    last,                 \* outcome of the last quota call (shared-store run in SpecPair)
    last_mem,             \* SpecPair: outcome of the same call in the in-process run
    calls,                \* ghost: non-admin check_rate_limit calls per user today
    admitted,             \* ghost: those of them that were admitted
    bonus_used,           \* ghost: the bonus values those calls used
    granted,              \* ghost: the last grant per user, [val, at] or NoGrant
    ncalls,               \* ghost: non-admin check_rate_limit calls of the whole run
    ngrants,              \* ghost: grant_quota_boost calls of the whole run
    pc,                   \* SpecConc: where each concurrent check_rate_limit call stands
    loc,                  \* SpecConc: each call's current_count and outcome
    start_count,          \* SpecConc ghost: the day counter before the concurrent calls
    start_bonus,          \* SpecConc ghost: the bonus before the concurrent calls
    cache_backend,        \* CacheService.backend: "redis" or "memory"
    cache_redis,          \* shared store: cache key -> [val, exp]
    cache_store,          \* InMemoryCache._store: key -> [data, expires]
    cache_ret,            \* outcome of the last cache call
    written,              \* ghost: the last set_json per key, [val, at, ttl]
    messages,             \* process_user_query: the transcript
    step,                 \* process_user_query: the loop's step counter
    apc,                  \* where the turn stands: ask, tools, done, fallback, raised
    tool_calls,           \* the tool requests of the provider's last reply
    idx,                  \* how many of tool_calls the for loop has gone through
    ret,                  \* what the turn returned, or the exception it ended with
    provider_calls,       \* ghost: calls made to the completion provider
    last_reply,           \* ghost: kind of the provider's last reply
    nreq,                 \* ghost: tool requests of the whole turn
    history,              \* process_user_query: the caller's history list
    audit,                \* the events AuditLog has logged in the turn
    admin_ret,            \* outcome of the last admin endpoint call
    nadmin,               \* ghost: admin endpoint calls of the whole run
    plans,                \* what the create_plan calls of the run returned
    heap,                 \* SpecTurns: the list objects, object id -> list
    turn_messages,        \* SpecTurns: each turn's local `messages`, an object id
    turn_history,         \* SpecTurns: each turn's `history` argument, an object id
    turn_pc,              \* SpecTurns: where each turn stands
    turn_step,            \* SpecTurns: each turn's step counter
    loop_owner,           \* SpecTurns: the turn that holds the event loop's thread, or 0
    sent,                 \* SpecTurns ghost: the object each turn last sent to the provider
    context,              \* SpecTurns: each turn's `context` argument
    weather_ret,          \* outcome of the last get_weather_forecast call
    fetched,              \* ghost: the last successful upstream fetch, or NoResult
    nweather              \* ghost: get_weather_forecast calls of the whole run

quotaVars == <<now, redis_ok, redis_rl, redis_boost, memory_limit_store,
               last, last_mem, calls, admitted, bonus_used, granted, ncalls,
               ngrants>>

concVars == <<pc, loc, start_count, start_bonus>>

cacheVars == <<cache_backend, cache_redis, cache_store, cache_ret, written>>

agentVars == <<messages, step, apc, tool_calls, idx, ret, provider_calls,
               last_reply, nreq, history, audit>>

turnVars == <<heap, turn_messages, turn_history, turn_pc, turn_step, loop_owner,
              sent, context>>

weatherVars == <<weather_ret, fetched, nweather>>

opsVars == <<admin_ret, nadmin, plans, turnVars, weatherVars>>

vars == <<quotaVars, concVars, cacheVars, agentVars, opsVars>>

----------------------------------------------------------------------------
(* Bounds of the model *)

MaxTicks == 2
MaxCalls == 7
MaxGrants == 1
NumProcs == 3
MaxCacheTime == 3
MaxBatch == 2
MaxRequests == 5
MaxAdminOps == 2
MaxPlans == 2
MaxHistory == 12
NumTurns == 2
MaxWeatherCalls == 3
MaxWeatherTicks == 3

(* Program constants *)

RATE_LIMIT_PER_DAY == 5
DAY == 86400
MAX_STEPS == 5
HISTORY_WINDOW == 10
WEATHER_TTL == 14400
BOOST_TTL == DAY * 30

TickSeconds == DAY \div 2
Users == {"u1", "u2"}
Procs == 1..NumProcs
CacheKeys == {"k1", "k2"}
CacheValues == {"v1", "v2"}
CacheTtls == {1, 2}
Bonuses == {1}

----------------------------------------------------------------------------
(* Role strings are sequences of characters, so that lower() is computed. *)

LowerChar(c) ==
    CASE c = "A" -> "a" [] c = "D" -> "d" [] c = "M" -> "m" [] c = "I" -> "i"
      [] c = "N" -> "n" [] c = "S" -> "s" [] c = "T" -> "t" [] c = "R" -> "r"
      [] c = "O" -> "o" [] c = "F" -> "f" [] c = "E" -> "e"
      [] OTHER -> c

Lower(s) == [i \in DOMAIN s |-> LowerChar(s[i])]

ADMIN == <<"a", "d", "m", "i", "n">>
ADMINISTRATOR == <<"a", "d", "m", "i", "n", "i", "s", "t", "r", "a", "t", "o", "r">>

Roles == { <<"f", "a", "r", "m", "e", "r">>,
           ADMIN,
           <<"A", "d", "m", "i", "n">>,
           <<"A", "D", "M", "I", "N", "I", "S", "T", "R", "A", "T", "O", "R">> }

IsAdminRoleExact(role) == role \in {ADMIN, ADMINISTRATOR}

IsAdminRole(role) == Lower(role) \in {ADMIN, ADMINISTRATOR}

----------------------------------------------------------------------------
(* The shared store: keys with a value and an expiry time (-1: none). *)

TodayFrozen(t) == 0

Today(t) == t \div DAY

RedisLive(kv, t) == [k \in {x \in DOMAIN kv : kv[x].exp = -1 \/ t < kv[x].exp} |-> kv[k]]

RedisIncrStale(kv, k) ==
    IF k \in DOMAIN kv THEN kv
    ELSE [x \in DOMAIN kv \cup {k} |-> IF x = k THEN [val |-> 1, exp |-> -1] ELSE kv[x]]

RedisIncr(kv, k) ==
    IF k \in DOMAIN kv THEN [kv EXCEPT ![k].val = @ + 1]
    ELSE [x \in DOMAIN kv \cup {k} |-> IF x = k THEN [val |-> 1, exp |-> -1] ELSE kv[x]]

RedisExpire(kv, k, t) ==
    IF k \in DOMAIN kv THEN [kv EXCEPT ![k].exp = t] ELSE kv

RedisSetEx(kv, k, v, t) ==
    [x \in DOMAIN kv \cup {k} |-> IF x = k THEN [val |-> v, exp |-> t] ELSE kv[x]]

RedisGetInt(kv, k) == IF k \in DOMAIN kv THEN kv[k].val ELSE 0

----------------------------------------------------------------------------
(* check_rate_limit *)

NoResult == [op |-> "none"]

AdminResult(u) ==
    [op |-> "check", user |-> u, status |-> "ok",
     limit |-> "unlimited", remaining |-> "unlimited", exempt |-> TRUE,
     store |-> "admin"]

Max0(n) == IF n > 0 THEN n ELSE 0

VerdictOffByOne(u, current_count, bonus_messages, store) ==
    LET total_limit == RATE_LIMIT_PER_DAY + bonus_messages IN
    IF current_count >= total_limit
    THEN [op |-> "check", user |-> u, status |-> "429",
          limit |-> total_limit, remaining |-> 0, exempt |-> FALSE,
          bonus |-> bonus_messages, store |-> store]
    ELSE [op |-> "check", user |-> u, status |-> "ok",
          limit |-> total_limit, remaining |-> Max0(total_limit - current_count),
          exempt |-> FALSE, bonus |-> bonus_messages, store |-> store]

VerdictBaseLimit(u, current_count, bonus_messages, store) ==
    LET total_limit == RATE_LIMIT_PER_DAY + bonus_messages IN
    IF current_count > total_limit
    THEN [op |-> "check", user |-> u, status |-> "429",
          limit |-> RATE_LIMIT_PER_DAY, remaining |-> 0, exempt |-> FALSE,
          bonus |-> bonus_messages, store |-> store]
    ELSE [op |-> "check", user |-> u, status |-> "ok",
          limit |-> total_limit, remaining |-> Max0(total_limit - current_count),
          exempt |-> FALSE, bonus |-> bonus_messages, store |-> store]

Verdict(u, current_count, bonus_messages, store) ==
    LET total_limit == RATE_LIMIT_PER_DAY + bonus_messages IN
    IF current_count > total_limit
    THEN [op |-> "check", user |-> u, status |-> "429",
          limit |-> total_limit, remaining |-> 0, exempt |-> FALSE,
          bonus |-> bonus_messages, store |-> store]
    ELSE [op |-> "check", user |-> u, status |-> "ok",
          limit |-> total_limit, remaining |-> Max0(total_limit - current_count),
          exempt |-> FALSE, bonus |-> bonus_messages, store |-> store]

(* The shared-store path: INCR, EXPIRE on the first increment, GET of the bonus. *)
RedisPathRl(u) ==
    LET key == <<u, Today(now)>>
        kv1 == RedisIncr(redis_rl, key)
    IN IF kv1[key].val = 1 THEN RedisExpire(kv1, key, now + DAY) ELSE kv1

RedisPathResult(u) ==
    Verdict(u, RedisPathRl(u)[<<u, Today(now)>>].val,
            RedisGetInt(redis_boost, u), "redis")

(* The in-process path: create the entry, reset it on a new day, count. *)
MemoryPathStoreRollback(u) ==
    LET s1 == IF u \in DOMAIN memory_limit_store THEN memory_limit_store
              ELSE [x \in DOMAIN memory_limit_store \cup {u} |->
                       IF x = u THEN [date |-> -1, count |-> 0, bonus |-> 0]
                       ELSE memory_limit_store[x]]
        s2 == IF s1[u].date # Today(now)
              THEN [s1 EXCEPT ![u] = [date |-> Today(now), count |-> 0, bonus |-> 0]]
              ELSE s1
    IN [s2 EXCEPT ![u].count =
           IF @ + 1 > RATE_LIMIT_PER_DAY + s2[u].bonus THEN @ ELSE @ + 1]

MemoryPathStore(u) ==
    LET s1 == IF u \in DOMAIN memory_limit_store THEN memory_limit_store
              ELSE [x \in DOMAIN memory_limit_store \cup {u} |->
                       IF x = u THEN [date |-> -1, count |-> 0, bonus |-> 0]
                       ELSE memory_limit_store[x]]
        s2 == IF s1[u].date # Today(now)
              THEN [s1 EXCEPT ![u] = [date |-> Today(now), count |-> 0, bonus |-> 0]]
              ELSE s1
    IN [s2 EXCEPT ![u].count = @ + 1]

MemoryPathResult(u) ==
    LET s == MemoryPathStore(u) IN
    Verdict(u, s[u].count, s[u].bonus, "memory")

(* Ghost bookkeeping of one non-admin call, from its outcome alone. *)
Account(u, res) ==
    /\ calls' = [calls EXCEPT ![u] = @ + 1]
    /\ admitted' = [admitted EXCEPT ![u] = IF res.status = "ok" THEN @ + 1 ELSE @]
    /\ bonus_used' = [bonus_used EXCEPT ![u] = @ \cup {res.limit - RATE_LIMIT_PER_DAY}]

check_rate_limit(u, role) ==
    /\ IsAdminRole(role) \/ ncalls < MaxCalls
    /\ ncalls' = IF IsAdminRole(role) THEN ncalls ELSE ncalls + 1
    /\ IF IsAdminRole(role)
       THEN /\ last' = AdminResult(u)
            /\ UNCHANGED <<redis_rl, memory_limit_store, calls, admitted, bonus_used>>
       ELSE IF redis_ok
       THEN /\ redis_rl' = RedisPathRl(u)
            /\ last' = RedisPathResult(u)
            /\ Account(u, RedisPathResult(u))
            /\ UNCHANGED memory_limit_store
       ELSE /\ memory_limit_store' = MemoryPathStore(u)
            /\ last' = MemoryPathResult(u)
            /\ Account(u, MemoryPathResult(u))
            /\ UNCHANGED redis_rl
    /\ UNCHANGED <<now, redis_ok, redis_boost, last_mem, granted, ngrants>>
    /\ UNCHANGED <<concVars, cacheVars, agentVars, opsVars>>

----------------------------------------------------------------------------
(* grant_quota_boost *)

NoGrant == [val |-> 0, at |-> -1]

GrantResult(u, n) == [op |-> "grant", user |-> u, bonus_granted |-> n]

GrantRedisAccumulates(u, n) ==
    RedisSetEx(redis_boost, u, RedisGetInt(redis_boost, u) + n, now + BOOST_TTL)

GrantRedis(u, n) == RedisSetEx(redis_boost, u, n, now + BOOST_TTL)

GrantMemory(u, n) ==
    LET s1 == IF u \in DOMAIN memory_limit_store THEN memory_limit_store
              ELSE [x \in DOMAIN memory_limit_store \cup {u} |->
                       IF x = u THEN [date |-> Today(now), count |-> 0, bonus |-> 0]
                       ELSE memory_limit_store[x]]
    IN [s1 EXCEPT ![u].bonus = n]

grant_quota_boost(u, n) ==
    /\ ngrants < MaxGrants
    /\ ngrants' = ngrants + 1
    /\ IF redis_ok
       THEN redis_boost' = GrantRedis(u, n) /\ UNCHANGED memory_limit_store
       ELSE memory_limit_store' = GrantMemory(u, n) /\ UNCHANGED redis_boost
    /\ last' = GrantResult(u, n)
    /\ granted' = [granted EXCEPT ![u] = [val |-> n, at |-> now]]
    /\ UNCHANGED <<now, redis_ok, redis_rl, last_mem, calls, admitted, bonus_used, ncalls>>
    /\ UNCHANGED <<concVars, cacheVars, agentVars, opsVars>>

----------------------------------------------------------------------------
(* The clock.  Keys of the shared store whose expiry has passed disappear. *)

Tick ==
    /\ now + TickSeconds <= MaxTicks * TickSeconds
    /\ now' = now + TickSeconds
    /\ redis_rl' = RedisLive(redis_rl, now')
    /\ redis_boost' = RedisLive(redis_boost, now')
    /\ last' = NoResult
    /\ last_mem' = NoResult
    /\ IF Today(now') # Today(now)
       THEN /\ calls' = [u \in Users |-> 0]
            /\ admitted' = [u \in Users |-> 0]
            /\ bonus_used' = [u \in Users |-> {}]
       ELSE UNCHANGED <<calls, admitted, bonus_used>>
    /\ UNCHANGED <<redis_ok, memory_limit_store, granted, ncalls, ngrants>>
    /\ UNCHANGED <<concVars, cacheVars, agentVars, opsVars>>

----------------------------------------------------------------------------
(* SpecQuota: the quota controller with the backing store fixed for the run. *)

EmptyMap == [x \in {} |-> 0]

ConcIdle ==
    /\ pc = [p \in Procs |-> "idle"]
    /\ loc = [p \in Procs |-> NoResult]
    /\ start_count = 0
    /\ start_bonus = 0

AgentIdle ==
    /\ messages = <<>>
    /\ step = 0
    /\ apc = "idle"
    /\ tool_calls = <<>>
    /\ idx = 0
    /\ ret = NoResult
    /\ provider_calls = 0
    /\ last_reply = "none"
    /\ nreq = 0
    /\ history = <<>>
    /\ audit = <<>>

TurnsIdle ==
    /\ heap = <<>>
    /\ turn_messages = <<>>
    /\ turn_history = <<>>
    /\ turn_pc = <<>>
    /\ turn_step = <<>>
    /\ loop_owner = 0
    /\ sent = <<>>
    /\ context = <<>>

WeatherIdle ==
    /\ weather_ret = NoResult
    /\ fetched = NoResult
    /\ nweather = 0

AdminIdle ==
    /\ admin_ret = NoResult
    /\ nadmin = 0
    /\ plans = <<>>

OpsIdle ==
    /\ AdminIdle
    /\ TurnsIdle
    /\ WeatherIdle

CacheIdle ==
    /\ cache_backend = "memory"
    /\ cache_redis = EmptyMap
    /\ cache_store = EmptyMap
    /\ cache_ret = NoResult
    /\ written = EmptyMap

QuotaIdle ==
    /\ now = 0
    /\ redis_ok = FALSE
    /\ redis_rl = EmptyMap
    /\ redis_boost = EmptyMap
    /\ memory_limit_store = EmptyMap
    /\ last = NoResult
    /\ last_mem = NoResult
    /\ calls = [u \in Users |-> 0]
    /\ admitted = [u \in Users |-> 0]
    /\ bonus_used = [u \in Users |-> {}]
    /\ granted = [u \in Users |-> NoGrant]
    /\ ncalls = 0
    /\ ngrants = 0

QuotaInit ==
    /\ ConcIdle
    /\ CacheIdle
    /\ AgentIdle
    /\ OpsIdle
    /\ now = 0
    /\ redis_ok \in BOOLEAN
    /\ redis_rl = EmptyMap
    /\ redis_boost = EmptyMap
    /\ memory_limit_store = EmptyMap
    /\ last = NoResult
    /\ last_mem = NoResult
    /\ calls = [u \in Users |-> 0]
    /\ admitted = [u \in Users |-> 0]
    /\ bonus_used = [u \in Users |-> {}]
    /\ granted = [u \in Users |-> NoGrant]
    /\ ncalls = 0
    /\ ngrants = 0

QuotaNext ==
    \/ \E u \in Users, role \in Roles : check_rate_limit(u, role)
    \/ \E u \in Users, n \in Bonuses : grant_quota_boost(u, n)
    \/ Tick

SpecQuota == QuotaInit /\ [][QuotaNext]_vars

----------------------------------------------------------------------------
(* SpecPair: the same sequence of calls made once on the shared-store path *)
(* (redis_rl, redis_boost, last) and once on the in-process path           *)
(* (memory_limit_store, last_mem).                                         *)

pair_check_rate_limit(u, role) ==
    /\ IsAdminRole(role) \/ ncalls < MaxCalls
    /\ ncalls' = IF IsAdminRole(role) THEN ncalls ELSE ncalls + 1
    /\ IF IsAdminRole(role)
       THEN /\ last' = AdminResult(u)
            /\ last_mem' = AdminResult(u)
            /\ UNCHANGED <<redis_rl, memory_limit_store>>
       ELSE /\ redis_rl' = RedisPathRl(u)
            /\ last' = RedisPathResult(u)
            /\ memory_limit_store' = MemoryPathStore(u)
            /\ last_mem' = MemoryPathResult(u)
    /\ UNCHANGED <<now, redis_ok, redis_boost, calls, admitted, bonus_used, granted, ngrants>>
    /\ UNCHANGED <<concVars, cacheVars, agentVars, opsVars>>

pair_grant_quota_boost(u, n) ==
    /\ ngrants < MaxGrants
    /\ ngrants' = ngrants + 1
    /\ redis_boost' = GrantRedis(u, n)
    /\ memory_limit_store' = GrantMemory(u, n)
    /\ last' = GrantResult(u, n)
    /\ last_mem' = GrantResult(u, n)
    /\ granted' = [granted EXCEPT ![u] = [val |-> n, at |-> now]]
    /\ UNCHANGED <<now, redis_ok, redis_rl, calls, admitted, bonus_used, ncalls>>
    /\ UNCHANGED <<concVars, cacheVars, agentVars, opsVars>>

PairInit == QuotaInit /\ redis_ok = TRUE

PairNext ==
    \/ \E u \in Users, role \in Roles : pair_check_rate_limit(u, role)
    \/ \E u \in Users, n \in Bonuses : pair_grant_quota_boost(u, n)
    \/ Tick

SpecPair == PairInit /\ [][PairNext]_vars

----------------------------------------------------------------------------
(* SpecConc: NumProcs check_rate_limit calls for the same non-admin user   *)
(* on the same day, running concurrently.  On the shared-store path each   *)
(* command (INCR, EXPIRE, GET) is one atomic step of the store and the     *)
(* calls interleave between commands.  The in-process path has no await    *)
(* between its read and its write, so the event loop runs it as one step.  *)
(* The run starts after start_count earlier calls of the day and a grant   *)
(* of start_bonus (0: none), as the sequential code leaves the stores.     *)

ConcUser == "u1"

ConcKey == <<ConcUser, Today(now)>>

c_incr(p) ==
    /\ pc[p] = "start" /\ redis_ok
    /\ redis_rl' = RedisIncr(redis_rl, ConcKey)
    /\ loc' = [loc EXCEPT ![p] = [op |-> "count", count |-> redis_rl'[ConcKey].val]]
    /\ pc' = [pc EXCEPT ![p] = IF redis_rl'[ConcKey].val = 1 THEN "expire" ELSE "bonus"]
    /\ UNCHANGED <<redis_boost, memory_limit_store>>
    /\ UNCHANGED <<now, redis_ok, last, last_mem, calls, admitted, bonus_used,
                   granted, ncalls, ngrants, start_count, start_bonus>>
    /\ UNCHANGED <<cacheVars, agentVars, opsVars>>

c_expire(p) ==
    /\ pc[p] = "expire"
    /\ redis_rl' = RedisExpire(redis_rl, ConcKey, now + DAY)
    /\ pc' = [pc EXCEPT ![p] = "bonus"]
    /\ UNCHANGED <<loc, redis_boost, memory_limit_store>>
    /\ UNCHANGED <<now, redis_ok, last, last_mem, calls, admitted, bonus_used,
                   granted, ncalls, ngrants, start_count, start_bonus>>
    /\ UNCHANGED <<cacheVars, agentVars, opsVars>>

c_bonus(p) ==
    /\ pc[p] = "bonus"
    /\ loc' = [loc EXCEPT ![p] =
                 [op |-> "done", count |-> loc[p].count,
                  res |-> Verdict(ConcUser, loc[p].count,
                                  RedisGetInt(redis_boost, ConcUser), "redis")]]
    /\ pc' = [pc EXCEPT ![p] = "done"]
    /\ UNCHANGED <<redis_rl, redis_boost, memory_limit_store>>
    /\ UNCHANGED <<now, redis_ok, last, last_mem, calls, admitted, bonus_used,
                   granted, ncalls, ngrants, start_count, start_bonus>>
    /\ UNCHANGED <<cacheVars, agentVars, opsVars>>

c_memory(p) ==
    /\ pc[p] = "start" /\ ~redis_ok
    /\ memory_limit_store' = MemoryPathStore(ConcUser)
    /\ loc' = [loc EXCEPT ![p] =
                 [op |-> "done", count |-> memory_limit_store'[ConcUser].count,
                  res |-> MemoryPathResult(ConcUser)]]
    /\ pc' = [pc EXCEPT ![p] = "done"]
    /\ UNCHANGED <<redis_rl, redis_boost>>
    /\ UNCHANGED <<now, redis_ok, last, last_mem, calls, admitted, bonus_used,
                   granted, ncalls, ngrants, start_count, start_bonus>>
    /\ UNCHANGED <<cacheVars, agentVars, opsVars>>

ConcInit ==
    /\ CacheIdle
    /\ AgentIdle
    /\ OpsIdle
    /\ now = 0
    /\ redis_ok \in BOOLEAN
    /\ start_count \in 0..(RATE_LIMIT_PER_DAY + 1)
    /\ start_bonus \in {0} \cup Bonuses
    /\ redis_rl = IF redis_ok /\ start_count > 0
                  THEN RedisSetEx(EmptyMap, ConcKey, start_count, now + DAY)
                  ELSE EmptyMap
    /\ redis_boost = IF redis_ok /\ start_bonus > 0
                     THEN RedisSetEx(EmptyMap, ConcUser, start_bonus, now + BOOST_TTL)
                     ELSE EmptyMap
    /\ memory_limit_store =
          IF ~redis_ok /\ (start_count > 0 \/ start_bonus > 0)
          THEN [x \in {ConcUser} |->
                  [date |-> Today(now), count |-> start_count, bonus |-> start_bonus]]
          ELSE EmptyMap
    /\ pc = [p \in Procs |-> "start"]
    /\ loc = [p \in Procs |-> NoResult]
    /\ last = NoResult
    /\ last_mem = NoResult
    /\ calls = [u \in Users |-> 0]
    /\ admitted = [u \in Users |-> 0]
    /\ bonus_used = [u \in Users |-> {}]
    /\ granted = [u \in Users |-> NoGrant]
    /\ ncalls = 0
    /\ ngrants = 0

ConcNext ==
    \/ \E p \in Procs : c_incr(p)
    \/ \E p \in Procs : c_expire(p)
    \/ \E p \in Procs : c_bonus(p)
    \/ \E p \in Procs : c_memory(p)

SpecConc == ConcInit /\ [][ConcNext]_vars

----------------------------------------------------------------------------
(* SpecCache: the response cache, CacheService over the shared store or    *)
(* over InMemoryCache.  The clock counts seconds.                          *)

Miss == "None"

Dumps(value) == <<"json", value>>

Loads(data) == data[2]

MemoryExpired(entry, t) == entry.expires < t

MemoryGetJson(key) ==
    IF key \notin DOMAIN cache_store THEN Miss
    ELSE IF MemoryExpired(cache_store[key], now) THEN Miss
    ELSE cache_store[key].data

MemoryGetStore(key) ==
    IF key \in DOMAIN cache_store /\ MemoryExpired(cache_store[key], now)
    THEN [k \in DOMAIN cache_store \ {key} |-> cache_store[k]]
    ELSE cache_store

MemorySetStore(key, value, ttl_seconds) ==
    [k \in DOMAIN cache_store \cup {key} |->
        IF k = key THEN [data |-> value, expires |-> now + ttl_seconds]
        ELSE cache_store[k]]

RedisGetJson(key) ==
    LET kv == RedisLive(cache_redis, now) IN
    IF key \in DOMAIN kv THEN Loads(kv[key].val) ELSE Miss

get_json(key) ==
    /\ IF cache_backend = "redis"
       THEN /\ cache_ret' = [op |-> "get", key |-> key, value |-> RedisGetJson(key)]
            /\ cache_redis' = RedisLive(cache_redis, now)
            /\ UNCHANGED cache_store
       ELSE /\ cache_ret' = [op |-> "get", key |-> key, value |-> MemoryGetJson(key)]
            /\ cache_store' = MemoryGetStore(key)
            /\ UNCHANGED cache_redis
    /\ UNCHANGED <<now, cache_backend, written>>
    /\ UNCHANGED <<redis_ok, redis_rl, redis_boost, memory_limit_store, last, last_mem,
                   calls, admitted, bonus_used, granted, ncalls, ngrants>>
    /\ UNCHANGED <<concVars, agentVars, opsVars>>

set_json(key, value, ttl_seconds) ==
    /\ IF cache_backend = "redis"
       THEN /\ cache_redis' = RedisSetEx(RedisLive(cache_redis, now), key,
                                         Dumps(value), now + ttl_seconds)
            /\ UNCHANGED cache_store
       ELSE /\ cache_store' = MemorySetStore(key, value, ttl_seconds)
            /\ UNCHANGED cache_redis
    /\ cache_ret' = [op |-> "set", key |-> key]
    /\ written' = [k \in DOMAIN written \cup {key} |->
                     IF k = key THEN [val |-> value, at |-> now, ttl |-> ttl_seconds]
                     ELSE written[k]]
    /\ UNCHANGED <<now, cache_backend>>
    /\ UNCHANGED <<redis_ok, redis_rl, redis_boost, memory_limit_store, last, last_mem,
                   calls, admitted, bonus_used, granted, ncalls, ngrants>>
    /\ UNCHANGED <<concVars, agentVars, opsVars>>

CacheTick ==
    /\ now < MaxCacheTime
    /\ now' = now + 1
    /\ cache_ret' = NoResult
    /\ UNCHANGED <<cache_backend, cache_redis, cache_store, written>>
    /\ UNCHANGED <<redis_ok, redis_rl, redis_boost, memory_limit_store, last, last_mem,
                   calls, admitted, bonus_used, granted, ncalls, ngrants>>
    /\ UNCHANGED <<concVars, agentVars, opsVars>>

CacheInit ==
    /\ QuotaIdle
    /\ ConcIdle
    /\ AgentIdle
    /\ OpsIdle
    /\ cache_backend \in {"redis", "memory"}
    /\ cache_redis = EmptyMap
    /\ cache_store = EmptyMap
    /\ cache_ret = NoResult
    /\ written = EmptyMap

CacheNext ==
    \/ \E key \in CacheKeys : get_json(key)
    \/ \E key \in CacheKeys, value \in CacheValues, ttl \in CacheTtls :
          set_json(key, value, ttl)
    \/ CacheTick

SpecCache == CacheInit /\ [][CacheNext]_vars

----------------------------------------------------------------------------
(* SpecAgent: one turn of process_user_query.  The completion provider is  *)
(* the environment: on each round it answers with a final text, with a     *)
(* batch of tool requests, or it fails.  A request carries a call id, a    *)
(* tool name and an argument payload; the payload is a string that         *)
(* json.loads parses, and it is one of: a JSON object with the keys the    *)
(* tool reads, the JSON object {} and text that is not JSON.               *)

Dispatched ==
    {"get_fields", "get_weather", "get_vegetation_health", "get_historical_weather",
     "get_alerts", "create_alert", "get_insurance_quote"}

IndexedArgs == {"get_weather", "get_vegetation_health"}

ProviderNames == {"get_fields", "get_weather", "format_report"}

ArgPayloads == {"object", "empty_object", "malformed"}

HandlerOutcomes == {"returns", "raises"}

FallbackText == "I needed to perform too many steps to answer this. Please try narrowing down your request."

AnswerText == "answer"

JsonParses(arguments) == arguments # "malformed"

UnknownTool(function_name) == [error |-> "Unknown tool", name |-> function_name]

ExceptionResult == [error |-> "exception"]

(* The if/elif chain inside the try block, with its except clause. *)

Dispatch(function_name, arguments, outcome) ==
    IF function_name \notin Dispatched THEN UnknownTool(function_name)
    ELSE IF function_name \in IndexedArgs /\ arguments = "empty_object"
    THEN ExceptionResult
    ELSE IF outcome = "raises" THEN ExceptionResult
    ELSE [value |-> function_name]

ToolMessage(tool_call, tool_result) ==
    [role |-> "tool", tool_call_id |-> tool_call.id, name |-> tool_call.name,
     content |-> Dumps(tool_result)]

AssistantMessage(batch) ==
    [role |-> "assistant", tool_calls |-> [i \in DOMAIN batch |-> batch[i].id]]

Batches ==
    UNION { [1..n -> ProviderNames \X ArgPayloads] : n \in 1..MaxBatch }

MakeBatch(b, first_id) ==
    [i \in DOMAIN b |-> [id |-> first_id + i, name |-> b[i][1], arguments |-> b[i][2]]]

(* AuditLog.log_event and log_decision: one entry per call. *)
log_event(log, event_type, details) ==
    Append(log, [event_type |-> event_type, details |-> details])

log_decision(log, recommendation) ==
    log_event(log, "AI_DECISION", recommendation)

(* The transcript a turn starts with: the system message, the slice      *)
(* history[-10:] copied message by message with its role and content, and  *)
(* the new user message.                                                   *)
LastNFromStart(h, n) == SubSeq(h, 1, IF Len(h) < n THEN Len(h) ELSE n)

LastN(h, n) == SubSeq(h, Max0(Len(h) - n) + 1, Len(h))

CopyOf(msg) == [role |-> msg.role, content |-> msg.content]

Transcript(h, message) ==
    << [role |-> "system", content |-> "system_prompt"] >>
       \o [i \in 1..Len(LastN(h, HISTORY_WINDOW)) |-> CopyOf(LastN(h, HISTORY_WINDOW)[i])]
       \o << [role |-> "user", content |-> message] >>

agentFrame == <<quotaVars, concVars, cacheVars, opsVars>>

(* Lines 195-204: the transcript is built and START_TURN is logged. *)
begin_turn(message) ==
    /\ apc = "start"
    /\ messages' = Transcript(history, message)
    /\ audit' = log_event(audit, "START_TURN", message)
    /\ apc' = "ask"
    /\ UNCHANGED <<step, tool_calls, idx, ret, provider_calls, last_reply, nreq, history>>
    /\ UNCHANGED agentFrame

provider_answers_same_step ==
    /\ apc = "ask"
    /\ provider_calls' = provider_calls + 1
    /\ last_reply' = "final"
    /\ ret' = [kind |-> "return", text |-> AnswerText]
    /\ apc' = "done"
    /\ audit' = log_decision(audit, AnswerText)
    /\ UNCHANGED <<messages, tool_calls, idx, nreq, step, history>>
    /\ UNCHANGED agentFrame

(* The provider answers without tool requests: the turn returns the text. *)
provider_answers ==
    /\ apc = "ask"
    /\ step' = step + 1
    /\ provider_calls' = provider_calls + 1
    /\ last_reply' = "final"
    /\ ret' = [kind |-> "return", text |-> AnswerText]
    /\ apc' = "done"
    /\ audit' = log_decision(audit, AnswerText)
    /\ UNCHANGED <<messages, tool_calls, idx, nreq, history>>
    /\ UNCHANGED agentFrame

(* The call to the provider raises: nothing in the loop catches it. *)
provider_raises ==
    /\ apc = "ask"
    /\ step' = step + 1
    /\ provider_calls' = provider_calls + 1
    /\ last_reply' = "raise"
    /\ ret' = [kind |-> "exception", from |-> "provider"]
    /\ apc' = "raised"
    /\ UNCHANGED <<messages, tool_calls, idx, nreq, history, audit>>
    /\ UNCHANGED agentFrame

(* The provider requests tools: its message is appended to the transcript. *)
provider_requests_tools(b) ==
    /\ apc = "ask"
    /\ nreq + Len(b) <= MaxRequests
    /\ step' = step + 1
    /\ provider_calls' = provider_calls + 1
    /\ last_reply' = "tools"
    /\ tool_calls' = MakeBatch(b, nreq)
    /\ nreq' = nreq + Len(b)
    /\ idx' = 0
    /\ messages' = Append(messages, AssistantMessage(tool_calls'))
    /\ apc' = "tools"
    /\ UNCHANGED <<ret, history, audit>>
    /\ UNCHANGED agentFrame

(* One pass of the for loop: json.loads, the dispatch, the tool message.   *)
(* After the last request the while condition is tested again.             *)
execute_tool(outcome) ==
    /\ apc = "tools"
    /\ idx < Len(tool_calls)
    /\ LET tool_call == tool_calls[idx + 1] IN
       IF ~JsonParses(tool_call.arguments)
       THEN /\ apc' = "raised"
            /\ ret' = [kind |-> "exception", from |-> "json.loads"]
            /\ UNCHANGED <<messages, idx, audit>>
       ELSE /\ messages' = Append(messages,
                  ToolMessage(tool_call, Dispatch(tool_call.name, tool_call.arguments, outcome)))
            /\ idx' = idx + 1
            /\ audit' = log_event(audit, "TOOL_EXECUTION", tool_call.name)
            /\ IF idx' < Len(tool_calls)
               THEN apc' = "tools" /\ UNCHANGED ret
               ELSE IF step < MAX_STEPS
               THEN apc' = "ask" /\ UNCHANGED ret
               ELSE /\ apc' = "fallback"
                    /\ ret' = [kind |-> "return", text |-> FallbackText]
    /\ UNCHANGED <<step, tool_calls, provider_calls, last_reply, nreq, history>>
    /\ UNCHANGED agentFrame

AgentInit ==
    /\ QuotaIdle
    /\ OpsIdle
    /\ ConcIdle
    /\ CacheIdle
    /\ messages = Transcript(<<>>, "query")
    /\ step = 0
    /\ apc = "ask"
    /\ tool_calls = <<>>
    /\ idx = 0
    /\ ret = NoResult
    /\ provider_calls = 0
    /\ last_reply = "none"
    /\ nreq = 0
    /\ history = <<>>
    /\ audit = log_event(<<>>, "START_TURN", "query")

AgentNext ==
    \/ provider_answers
    \/ provider_raises
    \/ \E b \in Batches : provider_requests_tools(b)
    \/ \E outcome \in HandlerOutcomes : execute_tool(outcome)

SpecAgent == AgentInit /\ [][AgentNext]_vars

----------------------------------------------------------------------------
(* Claims about the quota controller *)

MinOf(a, b) == IF a < b THEN a ELSE b

(* C1: for a non-admin user and a day on which every call used the same    *)
(* bonus b, the first RATE_LIMIT_PER_DAY + b calls are admitted and every  *)
(* later call is rejected with status 429; so the admitted calls of the    *)
(* day number min(calls, RATE_LIMIT_PER_DAY + b), never more than the      *)
(* limit.                                                                  *)
C1_DailyLimit ==
    \A u \in Users : \A b \in bonus_used[u] :
       bonus_used[u] = {b} =>
          /\ admitted[u] = MinOf(calls[u], RATE_LIMIT_PER_DAY + b)
          /\ admitted[u] <= RATE_LIMIT_PER_DAY + b
          /\ (last.op = "check" /\ ~last.exempt /\ last.user = u) =>
                /\ last.status = IF calls[u] > RATE_LIMIT_PER_DAY + b THEN "429" ELSE "ok"
                /\ last.limit = RATE_LIMIT_PER_DAY + b

C1_Witness ==
    \E u \in Users :
       /\ bonus_used[u] = {1}
       /\ calls[u] = RATE_LIMIT_PER_DAY + 2
       /\ admitted[u] = RATE_LIMIT_PER_DAY + 1
       /\ last.op = "check" /\ last.user = u /\ last.status = "429"

(* C2: a call whose role is admin or administrator in any letter case is   *)
(* never rejected, returns exempt = TRUE with unlimited limit and          *)
(* remaining, and leaves every counter and every bonus unchanged.          *)
AdminSpellings ==
    { r \in Roles : Len(r) \in {5, 13} /\ r[1] \in {"a", "A"} /\ r[2] \in {"d", "D"} }

C2_AdminExempt ==
    [][ \A u \in Users : \A role \in AdminSpellings :
          (last'.op = "check" /\ last'.user = u /\ check_rate_limit(u, role)) =>
             /\ last'.exempt = TRUE /\ last'.status = "ok"
             /\ last'.limit = "unlimited" /\ last'.remaining = "unlimited"
             /\ UNCHANGED <<redis_rl, redis_boost, memory_limit_store>> ]_vars

C2_Witness ==
    /\ last.op = "check" /\ last.exempt
    /\ calls[last.user] > admitted[last.user]
    /\ \/ redis_rl # EmptyMap
       \/ memory_limit_store # EmptyMap

(* C5: a granted bonus b keeps the effective limit at                      *)
(* RATE_LIMIT_PER_DAY + b on every call of a following day, before the     *)
(* bonus's own expiry, on either path.                                     *)
C5_BonusAcrossDays ==
    ( /\ last.op = "check" /\ ~last.exempt
      /\ granted[last.user] # NoGrant
      /\ Today(now) > Today(granted[last.user].at)
      /\ now < granted[last.user].at + BOOST_TTL )
    => last.limit = RATE_LIMIT_PER_DAY + granted[last.user].val

(* C7: the two paths give the same admit/reject outcome, limit and         *)
(* remaining value at every check_rate_limit call.                         *)
C7_PathsAgree ==
    (last.op = "check") =>
       /\ last_mem.op = "check"
       /\ last.status = last_mem.status
       /\ last.limit = last_mem.limit
       /\ last.remaining = last_mem.remaining

(* C8: concurrent check_rate_limit calls of one non-admin user on one day   *)
(* each observe a distinct counter value, and at most base + bonus calls   *)
(* of the day are admitted, under every interleaving, on either path.      *)
ConcCounted == {p \in Procs : pc[p] \in {"expire", "bonus", "done"}}

ConcAdmitted == {p \in Procs : pc[p] = "done" /\ loc[p].res.status = "ok"}

ConcRoom ==
    Max0(RATE_LIMIT_PER_DAY + start_bonus - start_count)

C8_AtomicCount ==
    /\ \A p, q \in ConcCounted : p # q => loc[p].count # loc[q].count
    /\ \A p \in ConcCounted : loc[p].count > start_count
    /\ Cardinality(ConcAdmitted) <= ConcRoom
    /\ (\A p \in Procs : pc[p] = "done") =>
          Cardinality(ConcAdmitted) = MinOf(NumProcs, ConcRoom)

C8_Witness ==
    /\ redis_ok
    /\ start_bonus > 0
    /\ \A p \in Procs : pc[p] = "done"
    /\ \E p, q \in Procs : loc[p].res.status = "ok" /\ loc[q].res.status = "429"
    /\ \E p, q \in Procs : p < q /\ loc[p].count > loc[q].count

----------------------------------------------------------------------------
(* Claims about the response cache *)

(* C6: for the last set_json(key, value, ttl) of a key, made at time w, a  *)
(* get_json(key) before w + ttl returns the value and a get_json(key) at   *)
(* or after w + ttl returns a miss, on either backend.                     *)
C6_TtlExpiry ==
    (cache_ret.op = "get" /\ cache_ret.key \in DOMAIN written) =>
       LET w == written[cache_ret.key] IN
       /\ (now < w.at + w.ttl) => cache_ret.value = w.val
       /\ (now >= w.at + w.ttl) => cache_ret.value = Miss

----------------------------------------------------------------------------
(* Claims about the agent loop *)

BatchOver == last_reply = "tools" /\ apc # "tools"

(* The messages that follow the provider's last assistant message. *)
AfterAssistant ==
    LET at == CHOOSE k \in 0..Len(messages) :
                 /\ k = 0 \/ messages[k].role = "assistant"
                 /\ \A j \in (k + 1)..Len(messages) : messages[j].role # "assistant"
    IN SubSeq(messages, at + 1, Len(messages))

(* C3: the provider is called at most MAX_STEPS times, and when its        *)
(* MAX_STEPS-th reply still requests tools the turn returns the fallback   *)
(* text and does not end with an exception.                                *)
C3_StepBound ==
    /\ provider_calls <= MAX_STEPS
    /\ (provider_calls = MAX_STEPS /\ BatchOver) =>
          /\ apc = "fallback"
          /\ ret = [kind |-> "return", text |-> FallbackText]

(* C4: once a batch of tool requests is over, the transcript holds,        *)
(* directly after the provider's assistant message, one tool message per   *)
(* request, with that request's call id and tool name, in request order.   *)
C4_OneResultPerRequest ==
    BatchOver =>
       /\ Len(AfterAssistant) = Len(tool_calls)
       /\ \A i \in 1..Len(tool_calls) :
             /\ AfterAssistant[i].role = "tool"
             /\ AfterAssistant[i].tool_call_id = tool_calls[i].id
             /\ AfterAssistant[i].name = tool_calls[i].name

(* C9: a request for a name outside the dispatch table gets the result     *)
(* {error: Unknown tool: name} as its tool message, the other requests of  *)
(* the batch are executed too, and the loop goes on to the next provider   *)
(* round.                                                                  *)
C9_UnknownToolContinues ==
    (BatchOver /\ \E i \in 1..Len(tool_calls) : tool_calls[i].name \notin Dispatched) =>
       /\ Len(AfterAssistant) = Len(tool_calls)
       /\ \A i \in 1..Len(tool_calls) :
             tool_calls[i].name \notin Dispatched =>
                AfterAssistant[i].content = Dumps(UnknownTool(tool_calls[i].name))
       /\ apc = "ask"

(* C10: when a call to the provider fails, the turn still ends by          *)
(* returning a text; the provider's error does not reach the caller.       *)
C10_ProviderFailureRecovered ==
    (last_reply = "raise") => (apc # "raised" /\ ret.kind = "return")

----------------------------------------------------------------------------
(* SpecAdmin: the admin endpoints of api/admin.py over the quota stores.   *)
(* An endpoint call records its HTTP status, its body and the store        *)
(* operations it made (ops); usage-stats also records, as ghosts, the      *)
(* counts and bonuses the serving store held when it was called.           *)

AdminCallerRoles ==
    { <<"a", "d", "m", "i", "n", "s">>,
      <<"A", "d", "m", "i", "n">>,
      <<"A", "D", "M", "I", "N", "I", "S", "T", "R", "A", "T", "O", "R">> }

AdminAmounts == {0, 1, 2, 101}

verify_admin_any(admin_role) == "ok"

verify_admin(admin_role) ==
    IF Lower(admin_role) \notin {ADMIN, ADMINISTRATOR} THEN "403" ELSE "ok"

get_quota_boost(u) ==
    IF redis_ok THEN RedisGetInt(redis_boost, u)
    ELSE IF u \in DOMAIN memory_limit_store THEN memory_limit_store[u].bonus
    ELSE 0

(* What the serving store holds for a user today. *)
StoreCount(u) ==
    IF redis_ok THEN RedisGetInt(redis_rl, <<u, Today(now)>>)
    ELSE IF u \in DOMAIN memory_limit_store /\ memory_limit_store[u].date = Today(now)
    THEN memory_limit_store[u].count
    ELSE 0

Forbidden(op, admin_role) ==
    [op |-> op, role |-> admin_role, status |-> 403, ops |-> {}]

InvalidAmountLowerOnly(additional_messages) == additional_messages < 1

InvalidAmount(additional_messages) ==
    additional_messages < 1 \/ additional_messages > 100

grant_quota_endpoint(admin_role, target_user_id, additional_messages) ==
    /\ nadmin < MaxAdminOps
    /\ nadmin' = nadmin + 1
    /\ IF verify_admin(admin_role) = "403"
       THEN /\ admin_ret' = Forbidden("grant-quota", admin_role)
            /\ UNCHANGED <<redis_boost, memory_limit_store, granted>>
       ELSE IF InvalidAmount(additional_messages)
       THEN /\ admin_ret' = [op |-> "grant-quota", role |-> admin_role,
                             status |-> 400, ops |-> {}]
            /\ UNCHANGED <<redis_boost, memory_limit_store, granted>>
       ELSE /\ IF redis_ok
               THEN redis_boost' = GrantRedis(target_user_id, additional_messages)
                    /\ UNCHANGED memory_limit_store
               ELSE memory_limit_store' = GrantMemory(target_user_id, additional_messages)
                    /\ UNCHANGED redis_boost
            /\ granted' = [granted EXCEPT ![target_user_id] =
                              [val |-> additional_messages, at |-> now]]
            /\ admin_ret' = [op |-> "grant-quota", role |-> admin_role, status |-> 200,
                             ops |-> {"get_redis", "set_bonus"},
                             user_id |-> target_user_id,
                             bonus_messages |-> additional_messages]
    /\ UNCHANGED <<now, redis_ok, redis_rl, last, last_mem, calls, admitted,
                   bonus_used, ncalls, ngrants, plans, turnVars, weatherVars>>
    /\ UNCHANGED <<concVars, cacheVars, agentVars>>

(* The keys rate_limit:*:{today} of the shared store. *)
TodayKeys == {k \in DOMAIN redis_rl : k[2] = Today(now)}

UsageRow(key) ==
    LET count == RedisGetInt(redis_rl, key)
        bonus == RedisGetInt(redis_boost, key[1])
    IN [user_id |-> key[1], messages_used |-> count,
        limit |-> RATE_LIMIT_PER_DAY + bonus, bonus |-> bonus]

UsageStats ==
    IF redis_ok
    THEN [date |-> Today(now),
          users_at_limit |-> {UsageRow(k) : k \in {x \in TodayKeys :
                                 UsageRow(x).messages_used >= UsageRow(x).limit}},
          total_users_tracked |-> Cardinality(TodayKeys)]
    ELSE [date |-> Today(now), users_at_limit |-> {}, total_users_tracked |-> 0]

get_usage_stats(admin_role) ==
    /\ nadmin < MaxAdminOps
    /\ nadmin' = nadmin + 1
    /\ IF verify_admin(admin_role) = "403"
       THEN admin_ret' = Forbidden("usage-stats", admin_role)
       ELSE admin_ret' = [op |-> "usage-stats", role |-> admin_role, status |-> 200,
                          ops |-> IF redis_ok THEN {"get_redis", "keys", "get"}
                                  ELSE {"get_redis"},
                          stats |-> UsageStats,
                          counts |-> [u \in Users |-> StoreCount(u)],
                          bonuses |-> [u \in Users |-> get_quota_boost(u)]]
    /\ UNCHANGED <<quotaVars, plans, turnVars, weatherVars>>
    /\ UNCHANGED <<concVars, cacheVars, agentVars>>

(* A user's quota call between the admin calls. *)
admin_user_call(u) ==
    /\ check_rate_limit(u, <<"f", "a", "r", "m", "e", "r">>)

(* Midnight: the run covers day 0 and day 1. *)
AdminTick ==
    /\ Today(now) = 0
    /\ now' = now + DAY
    /\ redis_rl' = RedisLive(redis_rl, now')
    /\ redis_boost' = RedisLive(redis_boost, now')
    /\ last' = NoResult
    /\ last_mem' = NoResult
    /\ admin_ret' = NoResult
    /\ calls' = [u \in Users |-> 0]
    /\ admitted' = [u \in Users |-> 0]
    /\ bonus_used' = [u \in Users |-> {}]
    /\ UNCHANGED <<redis_ok, memory_limit_store, granted, ncalls, ngrants, nadmin, plans>>
    /\ UNCHANGED <<turnVars, weatherVars>>
    /\ UNCHANGED <<concVars, cacheVars, agentVars>>

AdminInit == QuotaInit

AdminNext ==
    \/ \E admin_role \in AdminCallerRoles, u \in Users, n \in AdminAmounts :
          grant_quota_endpoint(admin_role, u, n)
    \/ \E admin_role \in AdminCallerRoles : get_usage_stats(admin_role)
    \/ \E u \in Users : admin_user_call(u)
    \/ AdminTick

SpecAdmin == AdminInit /\ [][AdminNext]_vars

(* SpecAdminGrant: the same endpoints while one user makes quota calls. *)
AdminGrantNext ==
    \/ \E admin_role \in AdminCallerRoles, u \in Users, n \in AdminAmounts :
          grant_quota_endpoint(admin_role, u, n)
    \/ \E admin_role \in AdminCallerRoles : get_usage_stats(admin_role)
    \/ admin_user_call("u1")
    \/ AdminTick

SpecAdminGrant == AdminInit /\ [][AdminGrantNext]_vars

----------------------------------------------------------------------------
(* Claims about the admin endpoints *)

AdminStep == nadmin' = nadmin + 1

(* C11: grant-quota and usage-stats called with a role other than admin /  *)
(* administrator (in any letter case) answer 403 and do nothing else: no   *)
(* store operation is made, no bonus is written, no counter changes.       *)
C11_AdminOnly ==
    [][(AdminStep /\ Lower(admin_ret'.role) \notin {ADMIN, ADMINISTRATOR}) =>
          /\ admin_ret'.status = 403
          /\ admin_ret'.ops = {}
          /\ UNCHANGED <<redis_rl, redis_boost, memory_limit_store>>]_vars

C11_Witness ==
    /\ admin_ret = Forbidden("grant-quota", <<"a", "d", "m", "i", "n", "s">>)
    /\ granted["u1"].val = 1
    /\ get_quota_boost("u1") = 1
    /\ calls["u1"] > 0

(* C12: usage-stats called by an admin lists in users_at_limit exactly the *)
(* users whose count for today is at least RATE_LIMIT_PER_DAY plus their   *)
(* bonus, and total_users_tracked is the number of users with a counter    *)
(* for today, on the shared store and on the in-process store.             *)
C12_UsageStatsExact ==
    (admin_ret.op = "usage-stats" /\ admin_ret.status = 200) =>
       /\ {row.user_id : row \in admin_ret.stats.users_at_limit}
             = {u \in Users : admin_ret.counts[u] >= RATE_LIMIT_PER_DAY + admin_ret.bonuses[u]}
       /\ admin_ret.stats.total_users_tracked
             = Cardinality({u \in Users : admin_ret.counts[u] > 0})

(* C13: a grant overwrites: after grant(u, b) the user's bonus is b,       *)
(* whatever was granted before, and no user's day counter changes.         *)
C13_GrantOverwrites ==
    [][(AdminStep /\ admin_ret'.op = "grant-quota" /\ admin_ret'.status = 200) =>
          /\ get_quota_boost(admin_ret.user_id)' = admin_ret'.bonus_messages
          /\ \A u \in Users : StoreCount(u)' = StoreCount(u)]_vars

C13_Witness ==
    /\ nadmin = 2
    /\ admin_ret.op = "grant-quota"
    /\ admin_ret.status = 200
    /\ admin_ret.user_id = "u1"
    /\ admin_ret.bonus_messages = 2
    /\ bonus_used["u1"] = {1}
    /\ admitted["u1"] = RATE_LIMIT_PER_DAY + 1
    /\ get_quota_boost("u1") = 2

----------------------------------------------------------------------------
(* SpecCacheFault: SpecCache with a shared store that can fail during a    *)
(* call.  Only the "redis" backend talks to a store that can fail; the     *)
(* exception is caught inside CacheService.                                *)

cacheFrame ==
    <<redis_ok, redis_rl, redis_boost, memory_limit_store, last, last_mem,
      calls, admitted, bonus_used, granted, ncalls, ngrants,
      concVars, agentVars, opsVars>>

GetFailureRaises(key) ==
    [op |-> "get", key |-> key, value |-> "exception", store_failed |-> TRUE,
     raised |-> TRUE]

(* except Exception: return None *)
GetFailure(key) ==
    [op |-> "get", key |-> key, value |-> Miss, store_failed |-> TRUE,
     raised |-> FALSE]

(* except Exception as e: print(...) *)
SetFailure(key) ==
    [op |-> "set", key |-> key, store_failed |-> TRUE, raised |-> FALSE]

(* self.redis.get, or json.loads of what it returned, raises. *)
get_json_store_fails(key) ==
    /\ cache_backend = "redis"
    /\ cache_ret' = GetFailure(key)
    /\ UNCHANGED <<now, cache_backend, cache_redis, cache_store, written>>
    /\ UNCHANGED cacheFrame

(* json.dumps or self.redis.setex raises: nothing is stored. *)
set_json_store_fails(key, value, ttl_seconds) ==
    /\ cache_backend = "redis"
    /\ cache_ret' = SetFailure(key)
    /\ UNCHANGED <<now, cache_backend, cache_redis, cache_store, written>>
    /\ UNCHANGED cacheFrame

CacheFaultNext ==
    \/ \E key \in CacheKeys : get_json(key)
    \/ \E key \in CacheKeys, value \in CacheValues, ttl_seconds \in CacheTtls :
          set_json(key, value, ttl_seconds)
    \/ CacheTick
    \/ \E key \in CacheKeys : get_json_store_fails(key)
    \/ \E key \in CacheKeys, value \in CacheValues, ttl_seconds \in CacheTtls :
          set_json_store_fails(key, value, ttl_seconds)

SpecCacheFault == CacheInit /\ [][CacheFaultNext]_vars

(* C15: no get_json or set_json call raises: a read during which the store *)
(* fails returns a miss, a write during which it fails is dropped and the  *)
(* call returns normally.                                                  *)
C15_CacheNeverRaises ==
    [][("store_failed" \in DOMAIN cache_ret') =>
          /\ ~cache_ret'.raised
          /\ cache_ret'.op = "get" => cache_ret'.value = Miss
          /\ cache_ret'.op = "set" => UNCHANGED <<cache_redis, cache_store>>]_vars

C15_Witness ==
    /\ cache_ret = GetFailure("k1")
    /\ cache_backend = "redis"
    /\ "k1" \in DOMAIN cache_redis
    /\ now < cache_redis["k1"].exp

----------------------------------------------------------------------------
(* SpecBoost: the quota controller over the lifetime of a bonus.  The      *)
(* clock moves in steps of 15 days, up to 15 days past the bonus expiry.   *)

BoostTickSeconds == DAY * 15

boost_check(u) ==
    /\ check_rate_limit(u, <<"f", "a", "r", "m", "e", "r">>)

boost_grant(u, n) ==
    /\ ngrants < MaxAdminOps
    /\ ngrants' = ngrants + 1
    /\ IF redis_ok
       THEN redis_boost' = GrantRedis(u, n) /\ UNCHANGED memory_limit_store
       ELSE memory_limit_store' = GrantMemory(u, n) /\ UNCHANGED redis_boost
    /\ last' = GrantResult(u, n)
    /\ granted' = [granted EXCEPT ![u] = [val |-> n, at |-> now]]
    /\ UNCHANGED <<now, redis_ok, redis_rl, last_mem, calls, admitted, bonus_used, ncalls>>
    /\ UNCHANGED <<concVars, cacheVars, agentVars, opsVars>>

BoostTick ==
    /\ now < BOOST_TTL + BoostTickSeconds
    /\ now' = now + BoostTickSeconds
    /\ redis_rl' = RedisLive(redis_rl, now')
    /\ redis_boost' = RedisLive(redis_boost, now')
    /\ last' = NoResult
    /\ last_mem' = NoResult
    /\ calls' = [u \in Users |-> 0]
    /\ admitted' = [u \in Users |-> 0]
    /\ bonus_used' = [u \in Users |-> {}]
    /\ UNCHANGED <<redis_ok, memory_limit_store, granted, ncalls, ngrants>>
    /\ UNCHANGED <<concVars, cacheVars, agentVars, opsVars>>

BoostNext ==
    \/ \E u \in Users : boost_check(u)
    \/ \E u \in Users, n \in {1, 2} : boost_grant(u, n)
    \/ BoostTick

SpecBoost == QuotaInit /\ [][BoostNext]_vars

(* The bonus a call at the current time counts: the last grant, for 30     *)
(* days from the time it was made.                                         *)
BonusInForce(u) ==
    IF granted[u].at >= 0 /\ now < granted[u].at + BOOST_TTL THEN granted[u].val ELSE 0

(* C14: a check_rate_limit call counts the user's last grant until 30 days *)
(* after it was made and no bonus from then on; a re-grant starts the 30   *)
(* days again; on the shared store and on the in-process store.            *)
C14_BonusThirtyDays ==
    (last.op = "check") => (last.bonus = BonusInForce(last.user))

----------------------------------------------------------------------------
(* SpecFault: the quota controller with a shared store whose availability  *)
(* changes between calls (get_redis() is called anew by every call) and    *)
(* which can fail in the middle of a call, after the ping succeeded.       *)

FaultPoints == {"incr", "expire", "get"}

Raised(op, u, point) == [op |-> op, user |-> u, status |-> "raised", point |-> point]

(* The shared store goes away or comes back; its contents stay. *)
redis_flips ==
    /\ redis_ok' = ~redis_ok
    /\ UNCHANGED <<now, redis_rl, redis_boost, memory_limit_store, last, last_mem,
                   calls, admitted, bonus_used, granted, ncalls, ngrants>>
    /\ UNCHANGED <<concVars, cacheVars, agentVars, opsVars>>

(* r.incr, r.expire or r.get raises: no handler, the exception leaves      *)
(* check_rate_limit with the store operations made so far in place.        *)
check_rate_limit_store_fails(u, point) ==
    /\ redis_ok
    /\ ncalls < MaxCalls
    /\ ncalls' = ncalls + 1
    /\ LET key == <<u, Today(now)>> IN
       CASE point = "incr" -> UNCHANGED redis_rl
         [] point = "expire" -> /\ RedisIncr(redis_rl, key)[key].val = 1
                                /\ redis_rl' = RedisIncr(redis_rl, key)
         [] point = "get" -> redis_rl' = RedisPathRl(u)
    /\ last' = Raised("check", u, point)
    /\ UNCHANGED <<now, redis_ok, redis_boost, memory_limit_store, last_mem,
                   calls, admitted, bonus_used, granted, ngrants>>
    /\ UNCHANGED <<concVars, cacheVars, agentVars, opsVars>>

(* r.set raises: no handler in grant_quota_boost either. *)
grant_quota_boost_store_fails(u, n) ==
    /\ redis_ok
    /\ ngrants < MaxGrants
    /\ ngrants' = ngrants + 1
    /\ last' = Raised("grant", u, "set")
    /\ UNCHANGED <<now, redis_ok, redis_rl, redis_boost, memory_limit_store, last_mem,
                   calls, admitted, bonus_used, granted, ncalls>>
    /\ UNCHANGED <<concVars, cacheVars, agentVars, opsVars>>

fault_check(u) ==
    /\ check_rate_limit(u, <<"f", "a", "r", "m", "e", "r">>)

FaultNext ==
    \/ \E u \in Users : fault_check(u)
    \/ \E u \in Users, n \in Bonuses : grant_quota_boost(u, n)
    \/ \E u \in Users, point \in FaultPoints : check_rate_limit_store_fails(u, point)
    \/ \E u \in Users, n \in Bonuses : grant_quota_boost_store_fails(u, n)
    \/ redis_flips

SpecFault == QuotaInit /\ [][FaultNext]_vars

(* C16: a check_rate_limit or grant_quota_boost call during which the      *)
(* shared store fails, at any point, still returns its result; the store's *)
(* failure is never raised to the caller.                                  *)
C16_StoreFailureHidden ==
    ("status" \in DOMAIN last) => (last.status # "raised")

(* C20: while the shared store comes and goes between the calls of a day,  *)
(* the calls admitted for a user that day never exceed base + bonus.       *)
C20_AdmittedAcrossBackends ==
    \A u \in Users : admitted[u] <= RATE_LIMIT_PER_DAY + granted[u].val

----------------------------------------------------------------------------
(* C17: a quota rejection carries the effective limit, base + the bonus    *)
(* the store holds for the user at the call, and remaining = 0; with bonus *)
(* 0 the 6th call of the day is rejected with limit 5 and remaining 0.     *)
C17_RejectionCarriesLimit ==
    (last.op = "check" /\ last.status = "429") =>
       /\ last.limit = RATE_LIMIT_PER_DAY + get_quota_boost(last.user)
       /\ last.remaining = 0
       /\ calls[last.user] > last.limit

C17_Witness ==
    /\ last.op = "check"
    /\ last.status = "429"
    /\ last.limit = 5
    /\ last.remaining = 0
    /\ granted[last.user] = NoGrant
    /\ calls[last.user] = 6
    /\ admitted[last.user] = 5

----------------------------------------------------------------------------
(* SpecAgentSingle: a turn in which the provider requests one tool per     *)
(* round.                                                                  *)

SingleNext ==
    \/ provider_answers
    \/ provider_raises
    \/ \E b \in {x \in Batches : Len(x) = 1} : provider_requests_tools(b)
    \/ \E outcome \in HandlerOutcomes : execute_tool(outcome)

SpecAgentSingle == AgentInit /\ [][SingleNext]_vars

(* The provider asked for the fields tool once, got the list, and answered. *)
FieldsThenAnswer ==
    /\ apc = "done"
    /\ last_reply = "final"
    /\ provider_calls = 2
    /\ Len(tool_calls) = 1
    /\ tool_calls[1].name = "get_fields"
    /\ messages[Len(messages)].role = "tool"
    /\ messages[Len(messages)].content = Dumps([value |-> "get_fields"])

ToolMessagesOf(function_name) ==
    {i \in DOMAIN messages : messages[i].role = "tool" /\ messages[i].name = function_name}

(* C18 as stated: in a turn where the provider requests the fields tool    *)
(* once and then answers from the list, the fields tool is dispatched once *)
(* and the turn finishes with the step counter equal to 1.                 *)
C18_StepCountOne ==
    FieldsThenAnswer => (Cardinality(ToolMessagesOf("get_fields")) = 1 /\ step = 1)

(* C18 amended: in such a turn the fields tool is dispatched once and the  *)
(* turn finishes with the step counter equal to 2: the counter counts the  *)
(* calls to the provider, the one that requests the tool and the one that  *)
(* answers.                                                                *)
C18_StepCountTwo ==
    FieldsThenAnswer =>
       /\ Cardinality(ToolMessagesOf("get_fields")) = 1
       /\ step = 2
       /\ step = provider_calls

C18_Witness ==
    /\ FieldsThenAnswer
    /\ step = 2
    /\ ret = [kind |-> "return", text |-> AnswerText]

----------------------------------------------------------------------------
(* SpecPlan: create_plan (core/planning.py).  The planning reply of the    *)
(* provider is the input: the call fails, the reply has no function_call,  *)
(* or it carries an arguments string.  A JSON value is a record with its   *)
(* type tag t, its text s and its items q.                                 *)

Absent == [t |-> "absent", s |-> "", q |-> <<>>]

Str(x) == [t |-> "str", s |-> x, q |-> <<>>]

List(items) == [t |-> "list", s |-> "", q |-> items]

EmptyObject == [goal |-> Absent, required_info |-> Absent, tools_needed |-> Absent]

GoodObjects ==
    { [goal |-> Str("see fields"), required_info |-> List(ri), tools_needed |-> List(tn)] :
        ri \in { <<>>, <<"Field Location">> }, tn \in { <<>>, <<"get_fields">> } }

BadObjects ==
    { EmptyObject,
      [goal |-> Str("see fields"), required_info |-> List(<<"Field Location">>),
       tools_needed |-> Absent],
      [goal |-> Absent, required_info |-> List(<<>>), tools_needed |-> List(<<"get_fields">>)],
      [goal |-> Str("see fields"), required_info |-> Str("Field Location"),
       tools_needed |-> List(<<"get_fields">>)] }

(* What json.loads makes of the arguments string. *)
PlanArguments ==
    { [j |-> "invalid", obj |-> EmptyObject], [j |-> "array", obj |-> EmptyObject] }
    \cup { [j |-> "object", obj |-> o] : o \in GoodObjects \cup BadObjects }

PlanReplies ==
    { [kind |-> "raises", args |-> [j |-> "invalid", obj |-> EmptyObject]],
      [kind |-> "no_function_call", args |-> [j |-> "invalid", obj |-> EmptyObject]] }
    \cup { [kind |-> "arguments", args |-> a] : a \in PlanArguments }

(* The AIPlan constructor: the three fields are required, goal a string,   *)
(* the other two lists of strings.                                         *)
AIPlanValid(obj) ==
    /\ obj.goal.t = "str"
    /\ obj.required_info.t = "list"
    /\ obj.tools_needed.t = "list"

(* The statements of the try block run without an exception. *)
PlanTrySucceeds(reply) ==
    /\ reply.kind = "arguments"
    /\ reply.args.j = "object"
    /\ AIPlanValid(reply.args.obj)

FallbackPlan ==
    [raised |-> FALSE, goal |-> "Answer directly", required_info |-> <<>>,
     tools_needed |-> <<>>]

create_plan_result_no_handler(reply) ==
    IF PlanTrySucceeds(reply)
    THEN [raised |-> FALSE, goal |-> reply.args.obj.goal.s,
          required_info |-> reply.args.obj.required_info.q,
          tools_needed |-> reply.args.obj.tools_needed.q]
    ELSE [raised |-> TRUE, goal |-> "", required_info |-> <<>>, tools_needed |-> <<>>]

create_plan_result(reply) ==
    IF PlanTrySucceeds(reply)
    THEN [raised |-> FALSE, goal |-> reply.args.obj.goal.s,
          required_info |-> reply.args.obj.required_info.q,
          tools_needed |-> reply.args.obj.tools_needed.q]
    ELSE FallbackPlan

create_plan(reply) ==
    /\ Len(plans) < MaxPlans
    /\ plans' = Append(plans, [reply |-> reply, plan |-> create_plan_result(reply)])
    /\ UNCHANGED <<admin_ret, nadmin, turnVars, weatherVars>>
    /\ UNCHANGED <<quotaVars, concVars, cacheVars, agentVars>>

PlanInit ==
    /\ QuotaIdle
    /\ ConcIdle
    /\ CacheIdle
    /\ AgentIdle
    /\ OpsIdle

PlanNext == \E reply \in PlanReplies : create_plan(reply)

SpecPlan == PlanInit /\ [][PlanNext]_vars

(* The replies the claim names: the call failed, the reply is missing, it  *)
(* is not valid JSON, or it does not fit the plan schema.                  *)
FailedReplies ==
    { r \in PlanReplies :
        \/ r.kind \in {"raises", "no_function_call"}
        \/ r.args.j \in {"invalid", "array"}
        \/ r.args.obj \in BadObjects }

(* C19: create_plan never raises; for a failed planning call or a reply    *)
(* that is missing, not valid JSON or not of the plan schema it returns a  *)
(* plan with empty required_info and empty tools_needed.                   *)
C19_PlanNeverRaises ==
    \A i \in DOMAIN plans :
       /\ ~plans[i].plan.raised
       /\ plans[i].reply \in FailedReplies =>
             /\ plans[i].plan.required_info = <<>>
             /\ plans[i].plan.tools_needed = <<>>

C19_Witness ==
    /\ Len(plans) = 2
    /\ plans[1].reply.kind = "arguments"
    /\ plans[1].reply.args.j = "object"
    /\ plans[1].reply.args.obj.tools_needed = Absent
    /\ plans[1].plan = FallbackPlan
    /\ plans[2].reply.kind = "raises"
    /\ plans[2].plan = FallbackPlan

----------------------------------------------------------------------------
(* Claims about the day counter *)

(* C21: every check_rate_limit call of a non-admin user adds exactly one   *)
(* to the user's counter for the current day, admitted or rejected: the    *)
(* counter equals the number of calls the user made today, and a rejected  *)
(* call leaves it above the limit it was rejected with.                    *)
C21_CountsEveryCall ==
    /\ \A u \in Users : StoreCount(u) = calls[u]
    /\ (last.op = "check" /\ ~last.exempt /\ last.status = "429")
          => StoreCount(last.user) > last.limit

C21_Witness ==
    /\ last.op = "check" /\ ~last.exempt /\ last.status = "429"
    /\ StoreCount(last.user) = last.limit + 2
    /\ admitted[last.user] = last.limit

(* SpecDay: quota calls of two users over day 0 and day 1. *)
DayNext ==
    \/ \E u \in Users : admin_user_call(u)
    \/ AdminTick

SpecDay == QuotaInit /\ [][DayNext]_vars

(* C22: within a day no step lowers a user's counter for that day, and the *)
(* first call a user makes on a day observes count 1 and is admitted,      *)
(* whatever the counter reached on earlier days.                           *)
C22_DayCounter ==
    [][\A u \in Users :
          /\ Today(now') = Today(now) => StoreCount(u)' >= StoreCount(u)
          /\ (ncalls' = ncalls + 1 /\ last'.user = u /\ calls[u] = 0) =>
                /\ StoreCount(u)' = 1
                /\ last'.status = "ok"
                /\ last'.remaining = last'.limit - 1]_vars

C22_Witness ==
    /\ Today(now) = 1
    /\ ~redis_ok
    /\ DOMAIN memory_limit_store = {"u1"}
    /\ ncalls = RATE_LIMIT_PER_DAY + 2
    /\ calls["u1"] = 1
    /\ last.op = "check" /\ last.user = "u1" /\ last.status = "ok"

----------------------------------------------------------------------------
(* SpecTranscript: a turn from its call, with the caller's history of 0 to *)
(* MaxHistory messages; message i of a history has the content            *)
(* HistoryText[i], and the caller may have put a name on each message.     *)

HistoryText ==
    <<"h01", "h02", "h03", "h04", "h05", "h06", "h07", "h08", "h09", "h10",
      "h11", "h12", "h13", "h14">>

HistoryMessage(i, named) ==
    IF named
    THEN [role |-> IF i % 2 = 1 THEN "user" ELSE "assistant",
          content |-> HistoryText[i], name |-> "caller"]
    ELSE [role |-> IF i % 2 = 1 THEN "user" ELSE "assistant",
          content |-> HistoryText[i]]

Histories ==
    { [i \in 1..n |-> HistoryMessage(i, named)] : n \in 0..MaxHistory, named \in BOOLEAN }

UserMessages == {"query", "follow-up"}

TranscriptInit ==
    /\ QuotaIdle
    /\ OpsIdle
    /\ ConcIdle
    /\ CacheIdle
    /\ messages = <<>>
    /\ step = 0
    /\ apc = "start"
    /\ tool_calls = <<>>
    /\ idx = 0
    /\ ret = NoResult
    /\ provider_calls = 0
    /\ last_reply = "none"
    /\ nreq = 0
    /\ history \in Histories
    /\ audit = <<>>

TranscriptNext ==
    \/ \E message \in UserMessages : begin_turn(message)
    \/ provider_answers
    \/ provider_requests_tools(<< <<"get_fields", "object">> >>)
    \/ execute_tool("returns")

SpecTranscript == TranscriptInit /\ [][TranscriptNext]_vars

(* C23: at the first provider call the transcript is the system message,   *)
(* then the last min(HISTORY_WINDOW, n) of the n history messages (role    *)
(* and content) in their order, then the new user message; a history       *)
(* message older than the last HISTORY_WINDOW is at no time in the         *)
(* transcript.                                                             *)
C23_TranscriptAtFirstCall ==
    LET n == Len(history)
        k == MinOf(HISTORY_WINDOW, n)
    IN /\ (apc = "ask" /\ provider_calls = 0) =>
            /\ Len(messages) = k + 2
            /\ messages[1].role = "system"
            /\ \A i \in 1..k :
                  /\ messages[1 + i].role = history[n - k + i].role
                  /\ messages[1 + i].content = history[n - k + i].content
            /\ messages[k + 2] = [role |-> "user", content |-> audit[1].details]
            /\ \A i \in 2..(k + 2) : messages[i].role # "system"
       /\ \A j \in 1..Len(messages) : \A i \in 1..(n - k) :
             messages[j].role \in {"user", "assistant"} /\ "content" \in DOMAIN messages[j]
                => messages[j].content # history[i].content

C23_Witness ==
    /\ Len(history) = HISTORY_WINDOW + 2
    /\ "name" \in DOMAIN history[1]
    /\ apc = "ask" /\ provider_calls = 0
    /\ Len(messages) = HISTORY_WINDOW + 2
    /\ messages[2].content = "h03"

----------------------------------------------------------------------------
(* Claims about the audit trail and the end of a turn *)

CountEvents(types) ==
    Cardinality({i \in DOMAIN audit : audit[i].event_type \in types})

ToolEventTypes == {"TOOL_EXECUTION", "TOOL_ERROR"}

(* C24: a turn logs START_TURN once, before any provider call; every tool  *)
(* request the loop has gone through or left behind has one tool event in  *)
(* the log, the handler having failed or not; and a turn that returned the *)
(* provider's answer has logged one AI_DECISION, as its last event.        *)
C24_AuditTrail ==
    /\ CountEvents({"START_TURN"}) = 1
    /\ audit[1].event_type = "START_TURN"
    /\ apc = "tools" => CountEvents(ToolEventTypes) = nreq - Len(tool_calls) + idx
    /\ apc \in {"ask", "done", "fallback", "raised"} => CountEvents(ToolEventTypes) = nreq
    /\ apc = "done" =>
          /\ CountEvents({"AI_DECISION"}) = 1
          /\ audit[Len(audit)].event_type = "AI_DECISION"

(* SpecAgentLive: a turn in which every provider call and every tool call *)
(* returns; the loop takes its next step whenever it has one.              *)
LiveNext ==
    \/ provider_answers
    \/ \E b \in {x \in Batches : Len(x) = 1} : provider_requests_tools(b)
    \/ \E outcome \in HandlerOutcomes : execute_tool(outcome)

SpecAgentLive == AgentInit /\ [][LiveNext]_vars /\ WF_vars(LiveNext)

(* C25: every turn ends by returning the provider's answer or the fallback *)
(* text.                                                                   *)
C25_TurnEnds == <>(apc \in {"done", "fallback"} /\ ret.kind = "return")

(* C26: once the loop is through with the tool requests of the provider's  *)
(* MAX_STEPS-th reply, every one of them has been executed and has its     *)
(* tool message in the transcript, the turn has returned the fallback      *)
(* text, and the provider has not been called again: the tool messages are *)
(* the end of the transcript.                                              *)
C26_LastBatchExecuted ==
    (provider_calls = MAX_STEPS /\ last_reply = "tools" /\ apc # "tools") =>
       /\ apc = "fallback"
       /\ ret = [kind |-> "return", text |-> FallbackText]
       /\ Len(AfterAssistant) = Len(tool_calls)
       /\ \A i \in 1..Len(tool_calls) :
             /\ AfterAssistant[i].role = "tool"
             /\ AfterAssistant[i].tool_call_id = tool_calls[i].id
       /\ CountEvents(ToolEventTypes) = nreq
       /\ messages[Len(messages)].role = "tool"

----------------------------------------------------------------------------
(* SpecTurns: several process_user_query coroutines on one event loop.     *)
(* Lists are objects of a heap, so that two names for one list are told    *)
(* from two lists: object 0 is the list of the default `history=[]`,       *)
(* which every call without a history shares; objects 1 and 2 are lists    *)
(* of callers; `messages = [...]` makes a new object for each turn.  A     *)
(* coroutine runs alone from one await to the next: the provider call is   *)
(* awaited, the tool handlers are plain calls made on the loop's thread.   *)

Turns == 1..NumTurns

DefaultHistory == 0

CallerLists == {1, 2}

CallerList(id) == [i \in 1..id |-> HistoryMessage(i, FALSE)]

ContextOf(t) == [user_id |-> t, role |-> "farmer"]

Store(h, id, list) ==
    [x \in DOMAIN h \cup {id} |-> IF x = id THEN list ELSE h[x]]

(* messages = [{"role": "system", ...}] binds the name to a new list. *)
NewListIsHistory(t) == turn_history[t]

NewList(t) == Cardinality(CallerLists) + t

TurnTranscript(t, h) ==
    << [role |-> "system", content |-> "system_prompt", turn |-> t] >>
       \o [i \in 1..Len(LastN(h, HISTORY_WINDOW)) |-> CopyOf(LastN(h, HISTORY_WINDOW)[i])]
       \o << [role |-> "user", content |-> "query", turn |-> t] >>

turnFrame == <<quotaVars, concVars, cacheVars, agentVars, admin_ret, nadmin, plans,
               weatherVars>>

(* Lines 195-219: the transcript, START_TURN, the first provider call. *)
turn_begin(t) ==
    /\ loop_owner = 0
    /\ turn_pc[t] = "start"
    /\ turn_messages' = [turn_messages EXCEPT ![t] = NewList(t)]
    /\ heap' = Store(heap, NewList(t), TurnTranscript(t, heap[turn_history[t]]))
    /\ turn_step' = [turn_step EXCEPT ![t] = 1]
    /\ sent' = [sent EXCEPT ![t] = NewList(t)]
    /\ turn_pc' = [turn_pc EXCEPT ![t] = "awaiting"]
    /\ UNCHANGED <<turn_history, loop_owner, context>>
    /\ UNCHANGED turnFrame

(* The awaited provider call completes with a final answer. *)
turn_provider_answers(t) ==
    /\ loop_owner = 0
    /\ turn_pc[t] = "awaiting"
    /\ turn_pc' = [turn_pc EXCEPT ![t] = "done"]
    /\ UNCHANGED <<heap, turn_messages, turn_history, turn_step, loop_owner, sent, context>>
    /\ UNCHANGED turnFrame

(* The awaited provider call completes with a tool request: the reply is   *)
(* appended, the arguments are parsed and the handler is called.           *)
turn_provider_requests_tool(t, arguments) ==
    /\ loop_owner = 0
    /\ turn_pc[t] = "awaiting"
    /\ heap' = [heap EXCEPT ![turn_messages[t]] =
                   Append(@, [role |-> "assistant", turn |-> t, round |-> turn_step[t]])]
    /\ IF JsonParses(arguments)
       THEN /\ turn_pc' = [turn_pc EXCEPT ![t] = "in_tool"]
            /\ loop_owner' = t
       ELSE /\ turn_pc' = [turn_pc EXCEPT ![t] = "raised"]
            /\ UNCHANGED loop_owner
    /\ UNCHANGED <<turn_messages, turn_history, turn_step, sent, context>>
    /\ UNCHANGED turnFrame

(* The handler returns (or raised and was caught): the tool message is     *)
(* appended, and the loop calls the provider again or gives up.            *)
turn_tool_returns(t) ==
    /\ loop_owner = t
    /\ turn_pc[t] = "in_tool"
    /\ heap' = [heap EXCEPT ![turn_messages[t]] =
                   Append(@, [role |-> "tool", turn |-> t, round |-> turn_step[t]])]
    /\ loop_owner' = 0
    /\ IF turn_step[t] < MAX_STEPS
       THEN /\ turn_step' = [turn_step EXCEPT ![t] = @ + 1]
            /\ sent' = [sent EXCEPT ![t] = turn_messages[t]]
            /\ turn_pc' = [turn_pc EXCEPT ![t] = "awaiting"]
       ELSE /\ turn_pc' = [turn_pc EXCEPT ![t] = "fallback"]
            /\ UNCHANGED <<turn_step, sent>>
    /\ UNCHANGED <<turn_messages, turn_history, context>>
    /\ UNCHANGED turnFrame

turn_next(t) ==
    \/ turn_begin(t)
    \/ turn_provider_answers(t)
    \/ \E arguments \in {"object", "malformed"} : turn_provider_requests_tool(t, arguments)
    \/ turn_tool_returns(t)

TurnsInit ==
    /\ QuotaIdle
    /\ ConcIdle
    /\ CacheIdle
    /\ AgentIdle
    /\ AdminIdle
    /\ WeatherIdle
    /\ heap = [id \in {DefaultHistory} \cup CallerLists |->
                  IF id = DefaultHistory THEN <<>> ELSE CallerList(id)]
    /\ turn_history \in [Turns -> {DefaultHistory} \cup CallerLists]
    /\ turn_messages = [t \in Turns |-> -1]
    /\ turn_pc = [t \in Turns |-> "start"]
    /\ turn_step = [t \in Turns |-> 0]
    /\ loop_owner = 0
    /\ sent = [t \in Turns |-> -1]
    /\ context = [t \in Turns |-> ContextOf(t)]

TurnsNext ==
    \/ \E t \in Turns : turn_begin(t)
    \/ \E t \in Turns : turn_provider_answers(t)
    \/ \E t \in Turns, arguments \in {"object", "malformed"} :
          turn_provider_requests_tool(t, arguments)
    \/ \E t \in Turns : turn_tool_returns(t)

SpecTurns == TurnsInit /\ [][TurnsNext]_vars

(* C27: a started turn's transcript is a list of its own: its system       *)
(* message, the copies of its caller's history, its user message, then     *)
(* only provider and tool messages of its own rounds; what it sends to the *)
(* provider is that list; and the lists of the callers, the shared default *)
(* list and the contexts are at all times what they were at the call.      *)
C27_TurnsIsolated ==
    /\ \A t \in Turns : turn_pc[t] # "start" =>
          LET own == heap[turn_messages[t]]
              h == IF turn_history[t] = DefaultHistory THEN <<>>
                   ELSE CallerList(turn_history[t])
              n == Len(TurnTranscript(t, h))
          IN /\ Len(own) >= n
             /\ SubSeq(own, 1, n) = TurnTranscript(t, h)
             /\ \A i \in (n + 1)..Len(own) :
                   own[i].role \in {"assistant", "tool"} /\ own[i].turn = t
             /\ sent[t] = turn_messages[t]
             /\ \A t2 \in Turns \ {t} : turn_messages[t2] # turn_messages[t]
             /\ turn_messages[t] \notin {DefaultHistory} \cup CallerLists
    /\ heap[DefaultHistory] = <<>>
    /\ \A id \in CallerLists : heap[id] = CallerList(id)
    /\ context = [t \in Turns |-> ContextOf(t)]

C27_Witness ==
    /\ turn_history[1] = DefaultHistory
    /\ turn_history[2] = DefaultHistory
    /\ turn_pc[1] = "in_tool"
    /\ turn_pc[2] = "awaiting"
    /\ Len(heap[turn_messages[1]]) = 5
    /\ Len(heap[turn_messages[2]]) = 4

(* C28: while a turn is inside a tool call, every other turn that has not  *)
(* ended can take a step.                                                  *)
C28_ToolCallDoesNotBlock ==
    \A a \in Turns : \A b \in Turns \ {a} :
       (turn_pc[a] = "in_tool" /\ turn_pc[b] \in {"start", "awaiting"})
          => ENABLED turn_next(b)

----------------------------------------------------------------------------
(* SpecWeather: get_weather_forecast over the response cache.  A           *)
(* coordinate is a number as json.loads delivers it: an int or a float,    *)
(* held in thousandths of a degree.  round(x, 2) keeps an int as it is and *)
(* rounds a float to hundredths, keeping its sign; the f-string writes an  *)
(* int without a decimal point and a float with one, and writes the sign   *)
(* of a negative zero.                                                     *)

IntValue(n) == [int |-> TRUE, milli |-> n * 1000]

FloatValue(milli) == [int |-> FALSE, milli |-> milli]

Abs(n) == IF n < 0 THEN -n ELSE n

(* Round half to even, in hundredths. *)
RoundCenti(milli) ==
    LET q == milli \div 10
        r == milli % 10
    IN IF r < 5 THEN q
       ELSE IF r > 5 THEN q + 1
       ELSE IF q % 2 = 0 THEN q ELSE q + 1

(* round(x, 2): the value in hundredths, its type and its sign bit. *)
Round2(x) ==
    IF x.int THEN [int |-> TRUE, centi |-> x.milli \div 10, negative |-> x.milli < 0]
    ELSE [int |-> FALSE, centi |-> RoundCenti(x.milli), negative |-> x.milli < 0]

(* The text the f-string puts in the key; decimals = -1: no decimal point. *)
FormatNumber(v) ==
    [sign |-> IF v.negative THEN "-" ELSE "",
     whole |-> Abs(v.centi) \div 100,
     decimals |-> IF v.int THEN -1 ELSE Abs(v.centi) % 100]

CacheKey(lat, lon) ==
    <<"weather", FormatNumber(Round2(lat)), FormatNumber(Round2(lon))>>

Lats == {IntValue(-17), FloatValue(-17000), FloatValue(-17004), FloatValue(-17830),
         FloatValue(4), FloatValue(-4)}

Lons == {FloatValue(31050)}

UpstreamOutcomes == {"ok", "fails"}

WeatherResult(lat, lon) ==
    [location |-> [lat |-> lat, lon |-> lon], fetched_at |-> now]

WeatherError == [error |-> "Weather service unavailable"]

CachedData(key) ==
    IF cache_backend = "redis" THEN RedisGetJson(key) ELSE MemoryGetJson(key)

(* `if cached_data:` -- what get_json returns is None or a stored result,  *)
(* and a stored result is a dict with three keys.                          *)
CacheHit(key) ==
    IF cache_backend = "redis" THEN key \in DOMAIN RedisLive(cache_redis, now)
    ELSE key \in DOMAIN cache_store /\ ~MemoryExpired(cache_store[key], now)

weatherFrame == <<quotaVars, concVars, agentVars, admin_ret, nadmin, plans, turnVars>>

get_weather_forecast(lat, lon, upstream) ==
    LET cache_key == CacheKey(lat, lon)
        cached_data == CachedData(cache_key)
        result == WeatherResult(lat, lon)
        call == [op |-> "weather", lat |-> lat, lon |-> lon, key |-> cache_key,
                 prior |-> fetched]
    IN
    /\ nweather < MaxWeatherCalls
    /\ nweather' = nweather + 1
    /\ IF CacheHit(cache_key)
       THEN /\ weather_ret' = call @@
                                 [hit |-> TRUE, upstream |-> FALSE, wrote |-> FALSE,
                                  result |-> cached_data]
            /\ UNCHANGED <<cache_redis, cache_store, written, fetched>>
       ELSE IF upstream = "ok"
       THEN /\ IF cache_backend = "redis"
               THEN /\ cache_redis' = RedisSetEx(RedisLive(cache_redis, now), cache_key,
                                                 Dumps(result), now + WEATHER_TTL)
                    /\ UNCHANGED cache_store
               ELSE /\ cache_store' = MemorySetStore(cache_key, result, WEATHER_TTL)
                    /\ UNCHANGED cache_redis
            /\ written' = [k \in DOMAIN written \cup {cache_key} |->
                             IF k = cache_key
                             THEN [val |-> result, at |-> now, ttl |-> WEATHER_TTL]
                             ELSE written[k]]
            /\ fetched' = [op |-> "fetch", lat |-> lat, lon |-> lon, at |-> now,
                           result |-> result]
            /\ weather_ret' = call @@ [hit |-> FALSE, upstream |-> TRUE, wrote |-> TRUE,
                                       result |-> result]
       ELSE /\ IF cache_backend = "redis"
               THEN cache_redis' = RedisLive(cache_redis, now) /\ UNCHANGED cache_store
               ELSE cache_store' = MemoryGetStore(cache_key) /\ UNCHANGED cache_redis
            /\ weather_ret' = call @@ [hit |-> FALSE, upstream |-> TRUE, wrote |-> FALSE,
                                       result |-> WeatherError]
            /\ UNCHANGED <<written, fetched>>
    /\ UNCHANGED <<now, cache_backend, cache_ret>>
    /\ UNCHANGED weatherFrame

WeatherTick ==
    /\ now < MaxWeatherTicks * (WEATHER_TTL \div 2)
    /\ now' = now + WEATHER_TTL \div 2
    /\ weather_ret' = NoResult
    /\ UNCHANGED <<redis_ok, redis_rl, redis_boost, memory_limit_store, last, last_mem,
                   calls, admitted, bonus_used, granted, ncalls, ngrants>>
    /\ UNCHANGED <<cacheVars, fetched, nweather>>
    /\ UNCHANGED <<concVars, agentVars, admin_ret, nadmin, plans, turnVars>>

WeatherInit ==
    /\ QuotaIdle
    /\ ConcIdle
    /\ AgentIdle
    /\ OpsIdle
    /\ cache_backend \in {"redis", "memory"}
    /\ cache_redis = EmptyMap
    /\ cache_store = EmptyMap
    /\ cache_ret = NoResult
    /\ written = EmptyMap

WeatherNext ==
    \/ \E lat \in Lats, lon \in Lons, upstream \in UpstreamOutcomes :
          get_weather_forecast(lat, lon, upstream)
    \/ WeatherTick

SpecWeather == WeatherInit /\ [][WeatherNext]_vars

(* C29: a call whose coordinates round to the same two-decimal pair as the *)
(* last successful fetch, made before WEATHER_TTL has passed since it,     *)
(* returns the stored result without an upstream request; the upstream is  *)
(* asked only on a miss; a failed fetch returns an error and writes        *)
(* nothing.                                                                *)
SamePair(lat1, lon1, lat2, lon2) ==
    /\ Round2(lat1).centi = Round2(lat2).centi
    /\ Round2(lon1).centi = Round2(lon2).centi

C29_CachedWithinTtl ==
    weather_ret.op = "weather" =>
       /\ ( /\ weather_ret.prior # NoResult
            /\ SamePair(weather_ret.lat, weather_ret.lon,
                        weather_ret.prior.lat, weather_ret.prior.lon)
            /\ now < weather_ret.prior.at + WEATHER_TTL )
          => /\ weather_ret.hit
             /\ ~weather_ret.upstream
             /\ weather_ret.result = weather_ret.prior.result
       /\ weather_ret.upstream => ~weather_ret.hit
       /\ ("error" \in DOMAIN weather_ret.result) => ~weather_ret.wrote

----------------------------------------------------------------------------
(* SpecGrantRange: grant-quota called by an admin with amounts on both     *)
(* sides of the two ends of the range, while one user makes quota calls.   *)

RangeAmounts == {-1, 0, 1, 100, 101}

RangeCaller == <<"A", "d", "m", "i", "n">>

GrantRangeNext ==
    \/ \E u \in Users, n \in RangeAmounts : grant_quota_endpoint(RangeCaller, u, n)
    \/ admin_user_call("u1")

SpecGrantRange == QuotaInit /\ [][GrantRangeNext]_vars

(* C30: grant-quota called by an admin with an amount below 1 or above 100 *)
(* answers 400 and leaves the target's bonus and day counter as they were; *)
(* with an amount from 1 to 100 it answers 200, names the user and the     *)
(* amount, and the target's bonus is that amount.                          *)
C30_GrantAmountRange ==
    [][AdminStep =>
          \A u \in Users, n \in RangeAmounts :
             grant_quota_endpoint(RangeCaller, u, n) =>
                IF n < 1 \/ n > 100
                THEN /\ admin_ret'.status = 400
                     /\ get_quota_boost(u)' = get_quota_boost(u)
                     /\ StoreCount(u)' = StoreCount(u)
                     /\ UNCHANGED <<redis_rl, redis_boost, memory_limit_store>>
                ELSE /\ admin_ret'.status = 200
                     /\ admin_ret'.user_id = u
                     /\ admin_ret'.bonus_messages = n
                     /\ get_quota_boost(u)' = n
                     /\ StoreCount(u)' = StoreCount(u)]_vars

C30_Witness ==
    /\ admin_ret.op = "grant-quota"
    /\ admin_ret.status = 400
    /\ granted["u1"].val = 100
    /\ get_quota_boost("u1") = 100
    /\ StoreCount("u1") > 0

====
